---------------------------- MODULE Spec2Model ----------------------------
(***************************************************************************)
(* A model of models.py: the actor-critic networks and the four            *)
(* imitation-learning discriminators (GAIL, GMMIL, AIRL, RED).             *)
(*                                                                         *)
(* One module object is constructed (Init) and then driven by an external  *)
(* training loop, which calls its methods with batches of samples and,     *)
(* for RED, steps an optimizer.  `module` holds the object's fields,       *)
(* `last` what the last operation was given and what it returned or        *)
(* raised, `pre` the object's fields before the last operation.            *)
(*                                                                         *)
(* Numbers.  Network outputs, weights and squared distances are small      *)
(* integers.  The float32 tensors that go through exp, +, / (the sigmoid   *)
(* and the AIRL discriminator) are floats of a reduced width: Prec bits    *)
(* of significand, exponents Emin..Emax, subnormals, round to nearest      *)
(* even, overflow to inf, inf/inf = nan, as in IEEE 754.  Logarithms are   *)
(* kept exact: the logarithm of a rational n/d is the value                *)
(* <<"log", n, d>>.  The GMMIL kernels are kept exact too: exp(-q) for a   *)
(* rational q is the value <<"exp_neg", n, d>>.                            *)
(***************************************************************************)
EXTENDS Integers, Sequences, FiniteSets, TLC

VARIABLES module, last, pre

vars == <<module, last, pre>>

None == <<>>

\* What a call leaves behind: the module's fields, and the value it returned
\* (raised = Nothing) or the exception it raised.
Nothing == "nothing"
Outcome(m, result, raised) == [module |-> m, result |-> result, raised |-> raised]

(***************************************************************************)
(* Bounds of the model.                                                    *)
(***************************************************************************)
MaxAgent == 1      \* rows of a batch of agent samples (GMMIL)
MaxExpert == 3     \* rows of a batch of expert samples (GMMIL)

(***************************************************************************)
(* Shapes: the constructor arguments state_size and action_size.           *)
(***************************************************************************)
state_size == 1
action_size == 2

Max(a, b) == IF a >= b THEN a ELSE b

RECURSIVE GCD(_, _)
GCD(a, b) == IF b = 0 THEN a ELSE GCD(b, a % b)

\* A rational n/d (n >= 0, d > 0) in lowest terms.
Rat(n, d) == LET g == GCD(n, d) IN <<n \div g, d \div g>>

RECURSIVE SumSeq(_)
SumSeq(s) == IF s = <<>> THEN 0 ELSE Head(s) + SumSeq(Tail(s))

(***************************************************************************)
(* The tensors' float format, at reduced width.  A float is                *)
(* <<"fin", m, e>> (the value m * 2^e, 0 <= m < 2^Prec, Emin <= e <= Emax, *)
(* normal when m >= 2^(Prec-1), subnormal or zero when e = Emin),          *)
(* <<"inf", 0, 0>> or <<"nan", 0, 0>>.  Only non-negative floats occur.    *)
(***************************************************************************)
Prec == 4
Emin == -6
Emax == 2

Inf == <<"inf", 0, 0>>
NaN == <<"nan", 0, 0>>
Fin(m, e) == <<"fin", m, e>>
Zero == Fin(0, Emin)
One == Fin(2^(Prec - 1), 1 - Prec)
Half == Fin(2^(Prec - 1), 0 - Prec)

IsNaN(x) == x[1] = "nan"
IsInf(x) == x[1] = "inf"
IsFin(x) == x[1] = "fin"
IsZero(x) == IsFin(x) /\ x[2] = 0

\* The finite float x as the fraction Num(x) / 2^(-Emin).
Num(x) == x[2] * 2^(x[3] - Emin)
Den == 2^(0 - Emin)

\* n * 2^e < d * 2^Prec, without negative powers.
FitsAt(n, d, e) ==
  IF e >= 0 THEN n < d * 2^(Prec + e) ELSE n * 2^(0 - e) < d * 2^Prec

\* Round to nearest, ties to even: the integer nearest to num / den.
RoundHalfEven(num, den) ==
  LET q == num \div den
      r == num % den
  IN  IF 2 * r > den \/ (2 * r = den /\ q % 2 = 1) THEN q + 1 ELSE q

\* The least exponent from e on at which n / d fits in Prec bits.
RECURSIVE ExponentOf(_, _, _)
ExponentOf(n, d, e) == IF FitsAt(n, d, e) THEN e ELSE ExponentOf(n, d, e + 1)

\* The float nearest to the rational n / d (n >= 0, d > 0).
RoundRat(n, d) ==
  IF n = 0 THEN Zero
  ELSE IF ~FitsAt(n, d, Emax) THEN Inf
  ELSE LET e == ExponentOf(n, d, Emin)
           m == IF e >= 0 THEN RoundHalfEven(n, d * 2^e)
                          ELSE RoundHalfEven(n * 2^(0 - e), d)
       IN  IF m = 2^Prec
             THEN (IF e + 1 > Emax THEN Inf ELSE Fin(2^(Prec - 1), e + 1))
             ELSE Fin(m, e)

\* x + y on tensors of non-negative floats
FAdd(x, y) ==
  IF IsNaN(x) \/ IsNaN(y) THEN NaN
  ELSE IF IsInf(x) \/ IsInf(y) THEN Inf
  ELSE RoundRat(Num(x) + Num(y), Den)

\* x / y on tensors of non-negative floats: a zero divisor gives inf or nan,
\* it does not raise
FDiv(x, y) ==
  IF IsNaN(x) \/ IsNaN(y) THEN NaN
  ELSE IF IsInf(x) THEN (IF IsInf(y) THEN NaN ELSE Inf)
  ELSE IF IsInf(y) THEN Zero
  ELSE IF IsZero(y) THEN (IF IsZero(x) THEN NaN ELSE Inf)
  ELSE RoundRat(Num(x), Num(y))

FLess(x, y) ==
  /\ ~IsNaN(x) /\ ~IsNaN(y)
  /\ IF IsInf(x) THEN FALSE
     ELSE IF IsInf(y) THEN TRUE
     ELSE Num(x) < Num(y)

\* torch.exp of the integer k: e^k rounded to the format (e^-4 = 0.0183 is
\* the subnormal 1/64, e^-5 rounds to 0, e^4 = 54.6 is 56, e^5 overflows).
Exp(k) ==
  CASE k <= -5 -> Zero
    [] k = -4 -> Fin(1, -6)
    [] k = -3 -> Fin(3, -6)
    [] k = -2 -> Fin(9, -6)
    [] k = -1 -> Fin(12, -5)
    [] k = 0 -> Fin(8, -3)
    [] k = 1 -> Fin(11, -2)
    [] k = 2 -> Fin(15, -1)
    [] k = 3 -> Fin(10, 1)
    [] k = 4 -> Fin(14, 2)
    [] k >= 5 -> Inf

(***************************************************************************)
(* Logarithms, exact: <<"log", n, d>> is ln(n / d) for a rational n/d > 0; *)
(* <<"-inf", 0, 0>>, <<"+inf", 0, 0>> and <<"nan", 0, 0>> are the          *)
(* float specials.                                                         *)
(***************************************************************************)
LogNegInf == <<"-inf", 0, 0>>
LogPosInf == <<"+inf", 0, 0>>
LogNaN == <<"nan", 0, 0>>
Ln(n, d) == <<"log">> \o Rat(n, d)

\* torch.log(x)
TorchLog(x) ==
  IF IsNaN(x) THEN LogNaN
  ELSE IF IsInf(x) THEN LogPosInf
  ELSE IF IsZero(x) THEN LogNegInf
  ELSE Ln(Num(x), Den)

\* torch.log1p(-x)
TorchLog1pNeg(x) ==
  IF IsNaN(x) \/ IsInf(x) THEN LogNaN
  ELSE IF Num(x) > Den THEN LogNaN
  ELSE IF Num(x) = Den THEN LogNegInf
  ELSE Ln(Den - Num(x), Den)

\* a - b on logarithms
LogSub(a, b) ==
  IF a[1] = "nan" \/ b[1] = "nan" THEN LogNaN
  ELSE IF a[1] = "-inf" THEN (IF b[1] = "-inf" THEN LogNaN ELSE LogNegInf)
  ELSE IF a[1] = "+inf" THEN (IF b[1] = "+inf" THEN LogNaN ELSE LogPosInf)
  ELSE IF b[1] = "-inf" THEN LogPosInf
  ELSE IF b[1] = "+inf" THEN LogNegInf
  ELSE Ln(a[2] * b[3], a[3] * b[2])

LogIsFinite(r) == r[1] = "log"
LogIsPositive(r) == r[1] = "+inf" \/ (r[1] = "log" /\ r[2] > r[3])

(***************************************************************************)
(* Inputs: batches (sequences of rows) of state vectors, of actions.       *)
(***************************************************************************)
States == {<<0>>, <<1>>}
Actions == 0..(action_size - 1)

\* F.one_hot(action, action_size) as float32, one row
OneHot(a, n) == [i \in 1..n |-> IF i = a + 1 THEN 1 ELSE 0]

\* Concatenates the state and one-hot version of an action
_join_state_action(state, action, n) ==
  [i \in 1..Len(state) |-> state[i] \o OneHot(action[i], n)]

\* NetworkInput with the action taken for the state when state_only.
NetworkInput_ActionForState(m, state, action) ==
  IF m.state_only THEN [i \in 1..Len(state) |-> <<action[i]>>]
  ELSE _join_state_action(state, action, m.action_size)

\* state if self.state_only else _join_state_action(state, action, self.action_size)
NetworkInput(m, state, action) ==
  IF m.state_only THEN state
  ELSE _join_state_action(state, action, m.action_size)

\* The rows a network of the module is built for: its input layer has
\* state_size inputs if state_only, state_size + action_size otherwise.
InputRows(state_only) ==
  IF state_only THEN States
  ELSE {s \o OneHot(a, action_size) : s \in States, a \in Actions}

(***************************************************************************)
(* GAILDiscriminator                                                       *)
(***************************************************************************)
\* The learned function of the layers before the Sigmoid: any table from
\* input rows to logits.
LogitValues == {-5, 1, 5}

\* nn.Sigmoid: 1 / (1 + exp(-x))
Sigmoid(x) == FDiv(One, FAdd(One, Exp(0 - x)))

GAILInit(state_only, net) ==
  [class |-> "GAILDiscriminator", action_size |-> action_size,
   state_only |-> state_only, discriminator |-> net]

GAIL_forward(m, state, action) ==
  LET input == NetworkInput(m, state, action)
  IN  [i \in 1..Len(state) |-> Sigmoid(m.discriminator[input[i]])]

GAIL_predict_reward(m, state, action) ==
  LET D == GAIL_forward(m, state, action)
  IN  [i \in 1..Len(state) |-> LogSub(TorchLog(D[i]), TorchLog1pNeg(D[i]))]

(***************************************************************************)
(* GMMILDiscriminator                                                      *)
(***************************************************************************)
\* The state vectors of GMMIL's samples: three distinct points, the fewest
\* with which a median of expert-to-expert distances can be non-zero.
Samples == States \cup {<<2>>}

Dot(x, y) == SumSeq([k \in 1..Len(x) |-> x[k] * y[k]])

\* Computes the scaled squared distance between two sets of vectors
\* (lengthscale = 1): XX - 2 XY + YY^T, clamped at 0
_squared_distance(X, Y) ==
  LET XX == [i \in 1..Len(X) |-> Dot(X[i], X[i])]
      YY == [j \in 1..Len(Y) |-> Dot(Y[j], Y[j])]
  IN  [i \in 1..Len(X) |->
         [j \in 1..Len(Y) |-> Max(XX[i] - 2 * Dot(X[i], Y[j]) + YY[j], 0)]]

RECURSIVE Flatten(_)
Flatten(matrix) ==
  IF matrix = <<>> THEN <<>> ELSE Head(matrix) \o Flatten(Tail(matrix))

\* tensor.median() over all the elements: of two middle elements the lower,
\* the element of rank (n - 1) div 2 (from 0) in sorted order
Median(matrix) ==
  LET xs == Flatten(matrix)
      k == (Len(xs) - 1) \div 2
      Below(v) == Cardinality({i \in 1..Len(xs) : xs[i] < v})
      UpTo(v) == Cardinality({i \in 1..Len(xs) : xs[i] <= v})
  IN  CHOOSE v \in {xs[i] : i \in 1..Len(xs)} : Below(v) <= k /\ k < UpTo(v)

\* Gaussian/radial basis function/exponentiated quadratic kernel:
\* exp(-gamma * distances), gamma a rational, kept exact
_gaussian_kernel(distances, gamma) ==
  [j \in 1..Len(distances) |-> <<"exp_neg">> \o Rat(gamma[1] * distances[j], gamma[2])]

\* tensor.mean(dim=1), one row, kept exact
Mean(row) == <<"mean", row>>

GMMILInit(state_only) ==
  [class |-> "GMMILDiscriminator", action_size |-> action_size,
   state_only |-> state_only, gamma_1 |-> None, gamma_2 |-> None]

\* NeedsBandwidths without the test: the bandwidths set anew by every call.
NeedsBandwidths_Always(m) == TRUE

\* if self.gamma_1 is None:
NeedsBandwidths(m) == m.gamma_1 = None

\* _squared_distance(state_action, expert_state_action).median().item()
Median1(state_action, expert_state_action) ==
  Median(_squared_distance(state_action, expert_state_action))

\* Median2 taken, like Median1, over the agent-to-expert distances.
Median2_AgentToExpert(state_action, expert_state_action) ==
  Median(_squared_distance(state_action, expert_state_action))

\* _squared_distance(expert_state_action, expert_state_action).median().item()
Median2(state_action, expert_state_action) ==
  Median(_squared_distance(expert_state_action, expert_state_action))

\* Return sum of maximum mean discrepancies
GMMILKernels(m, state_action, expert_state_action) ==
  LET distances == _squared_distance(state_action, expert_state_action)
  IN  [i \in 1..Len(state_action) |->
         <<Mean(_gaussian_kernel(distances[i], m.gamma_1)),
           Mean(_gaussian_kernel(distances[i], m.gamma_2))>>]

\* predict_reward: the fields it leaves and what it returns or raises.
\* 1 / x on Python floats raises ZeroDivisionError for x = 0.0, after
\* gamma_1 was assigned when it is the second median that is 0; -gamma
\* raises TypeError when gamma is None.
GMMIL_predict_reward(m, state, action, expert_state, expert_action) ==
  LET state_action == NetworkInput(m, state, action)
      expert_state_action == NetworkInput(m, expert_state, expert_action)
      median_1 == Median1(state_action, expert_state_action)
      median_2 == Median2(state_action, expert_state_action)
  IN  IF NeedsBandwidths(m) /\ median_1 = 0
        THEN Outcome(m, None, "ZeroDivisionError")
      ELSE IF NeedsBandwidths(m) /\ median_2 = 0
        THEN Outcome([m EXCEPT !.gamma_1 = Rat(1, median_1)], None, "ZeroDivisionError")
      ELSE LET m2 == IF NeedsBandwidths(m)
                       THEN [m EXCEPT !.gamma_1 = Rat(1, median_1),
                                      !.gamma_2 = Rat(1, median_2)]
                       ELSE m
           IN  IF m2.gamma_2 = None
                 THEN Outcome(m2, None, "TypeError")
                 ELSE Outcome(m2, GMMILKernels(m2, state_action, expert_state_action),
                              Nothing)

(***************************************************************************)
(* AIRLDiscriminator                                                       *)
(***************************************************************************)
\* nn.Linear(in_features, 1) followed by squeeze: weight . input + bias
Linear(layer, input) ==
  SumSeq([k \in 1..Len(input) |-> layer.weight[k] * input[k]]) + layer.bias

\* The discount as a fraction, the policy probabilities as floats, the
\* terminal flags.
Discounts == {<<1, 2>>, <<1, 1>>}
Policies == {Zero, Half}
Terminals == {0, 1}

\* self.g: the weights and the bias of the reward function r
RewardWeights == {0, 2}
RewardBias == {-1}
\* self.h: the learned shaping function, any table from states to values
\* (even, so that a discount of 1/2 keeps them integers)
ShapingValues == {-2, 2}

AIRLInit(state_only, discount, g, h) ==
  [class |-> "AIRLDiscriminator", action_size |-> action_size,
   state_only |-> state_only, discount |-> discount, g |-> g, h |-> h]

AIRL_reward(m, state, action) ==
  LET input == NetworkInput(m, state, action)
  IN  [i \in 1..Len(state) |-> Linear(m.g, input[i])]

AIRL_value(m, state) == [i \in 1..Len(state) |-> m.h[state[i]]]

\* self.discount * value
Discounted(discount, value) == (discount[1] * value) \div discount[2]

\* AIRL_f with the mask on the next state's value alone.
AIRL_f_MaskNextValueOnly(m, state, action, next_state, terminal) ==
  [i \in 1..Len(state) |->
     AIRL_reward(m, state, action)[i]
       + (1 - terminal[i]) * Discounted(m.discount, AIRL_value(m, next_state)[i])
       - AIRL_value(m, state)[i]]

\* f = reward(state, action) + (1 - terminal) *
\*       (discount * value(next_state) - value(state))
AIRL_f(m, state, action, next_state, terminal) ==
  [i \in 1..Len(state) |->
     AIRL_reward(m, state, action)[i] + (1 - terminal[i]) *
       (Discounted(m.discount, AIRL_value(m, next_state)[i]) - AIRL_value(m, state)[i])]

AIRL_forward(m, state, action, next_state, policy, terminal) ==
  LET f == AIRL_f(m, state, action, next_state, terminal)
  IN  [i \in 1..Len(state) |->
         LET f_exp == Exp(f[i]) IN FDiv(f_exp, FAdd(f_exp, policy[i]))]

AIRL_predict_reward(m, state, action, next_state, policy, terminal) ==
  LET D == AIRL_forward(m, state, action, next_state, policy, terminal)
  IN  [i \in 1..Len(state) |-> LogSub(TorchLog(D[i]), TorchLog1pNeg(D[i]))]

(***************************************************************************)
(* EmbeddingNetwork, REDDiscriminator                                      *)
(***************************************************************************)
\* The parameters of an embedding network <<w, b>>, and the function they
\* stand for: a row of input_size numbers to a row of input_size numbers.
EmbeddingParams == {0, 1} \X {0, 1}

EmbeddingNetwork_forward(params, input) ==
  [i \in 1..Len(input) |->
     [k \in 1..Len(input[i]) |-> params[1] * input[i][k] + params[2]]]

\* TargetRequiresGrad without the constructor's loop: the default of a
\* parameter.
TargetRequiresGrad_Default == TRUE

\* The target's parameters are frozen in the constructor:
\* for param in self.target.parameters(): param.requires_grad = False
TargetRequiresGrad == FALSE

REDInit(state_only, predictor, target) ==
  [class |-> "REDDiscriminator", action_size |-> action_size,
   state_only |-> state_only, gamma |-> None,
   predictor |-> predictor, target |-> target,
   requires_grad |-> [predictor |-> TRUE, target |-> TargetRequiresGrad]]

RED_forward(m, state, action) ==
  LET state_action == NetworkInput(m, state, action)
  IN  <<EmbeddingNetwork_forward(m.predictor, state_action),
        EmbeddingNetwork_forward(m.target, state_action)>>

\* _gaussian_kernel(F.pairwise_distance(prediction, target, p=2).pow(2), gamma=1),
\* kept exact: exp(-|x|^2) of the row x = prediction - target (to which
\* pairwise_distance adds its eps) is <<"exp_neg_sq_norm", x>>
RED_predict_reward(m, state, action) ==
  LET out == RED_forward(m, state, action)
  IN  [i \in 1..Len(state) |->
         <<"exp_neg_sq_norm",
           [k \in 1..Len(out[1][i]) |-> out[1][i][k] - out[2][i][k]]>>]

\* A step of the external optimizer: it may change the parameters that
\* require gradients, and no others.
OptimizerStep(m, predictor, target) ==
  [m EXCEPT !.predictor = IF m.requires_grad.predictor THEN predictor ELSE @,
            !.target = IF m.requires_grad.target THEN target ELSE @]

(***************************************************************************)
(* Actor, Critic, ActorCritic                                              *)
(***************************************************************************)
\* The learned functions: any table from states to action logits, to values.
ActorLogits == {0, 1}
CriticValues == {-1, 1}

ActorInit(net) == [class |-> "Actor", actor |-> net]
CriticInit(net) == [class |-> "Critic", critic |-> net]
ActorCriticInit(actor, critic) ==
  [class |-> "ActorCritic", actor |-> ActorInit(actor), critic |-> CriticInit(critic)]

MaxOf(row) == CHOOSE v \in {row[k] : k \in 1..Len(row)} :
                \A k \in 1..Len(row) : row[k] <= v

\* Categorical(logits=...): the distribution, which logits that differ by a
\* constant share; kept as the logits shifted to a maximum of 0
Categorical(logits) ==
  <<"Categorical", [k \in 1..Len(logits) |-> logits[k] - MaxOf(logits)]>>

\* policy.log_prob(action), kept exact: the normalised logit of the action
Categorical_log_prob(policy, action) == <<"log_prob", policy[2], action>>

Actor_forward(m, state) == [i \in 1..Len(state) |-> Categorical(m.actor[state[i]])]

Critic_forward(m, state) == [i \in 1..Len(state) |-> m.critic[state[i]]]

ActorCritic_forward(m, state) ==
  <<Actor_forward(m.actor, state), Critic_forward(m.critic, state)>>

ActorCritic_log_prob(m, state, action) ==
  LET policy == Actor_forward(m.actor, state)
  IN  [i \in 1..Len(state) |-> Categorical_log_prob(policy[i], action[i])]

(***************************************************************************)
(* The state machine                                                       *)
(***************************************************************************)
\* `last`: the last operation, its arguments, and what it returned or
\* raised.  "__init__" is the constructor, "idle" no operation to look at.
Observed(op, args, out) ==
  [op |-> op, args |-> args, result |-> out.result, raised |-> out.raised]

Constructed == [op |-> "__init__", args |-> None, result |-> None, raised |-> Nothing]
Idle == [op |-> "idle", args |-> None, result |-> None, raised |-> Nothing]

\* The arguments of the calls.  Every module but GMMILDiscriminator
\* computes row i of its result from row i of its arguments alone, and is
\* called with batches of one row; GMMIL's medians and means run over whole
\* batches, of up to MaxAgent agent and MaxExpert expert samples.
Batch1(S) == {<<x>> : x \in S}

StateBatches == {<<s>> : s \in Batch1(States)}

StateActionBatches == Batch1(States) \X Batch1(Actions)

TransitionBatches ==
  Batch1(States) \X Batch1(Actions) \X Batch1(States) \X Batch1(Policies)
    \X Batch1(Terminals)

AgentBatches ==
  UNION {[1..k -> States] \X [1..k -> Actions] : k \in 1..MaxAgent}

\* Expert batches are drawn with their rows in non-decreasing order.
RowKey(state, action, i) == state[i][1] * action_size + action[i]

ExpertBatches ==
  {b \in UNION {[1..k -> Samples] \X [1..k -> Actions] : k \in 1..MaxExpert} :
     \A i \in 1..(Len(b[1]) - 1) : RowKey(b[1], b[2], i) <= RowKey(b[1], b[2], i + 1)}

InitActorCritic ==
  \/ \E net \in [States -> [1..action_size -> ActorLogits]] : module = ActorInit(net)
  \/ \E net \in [States -> CriticValues] : module = CriticInit(net)
  \/ \E actor \in [States -> [1..action_size -> ActorLogits]] :
       \E critic \in [States -> CriticValues] : module = ActorCriticInit(actor, critic)

InitGAIL ==
  \E so \in BOOLEAN : \E net \in [InputRows(so) -> LogitValues] :
    module = GAILInit(so, net)

InitGMMIL == \E so \in BOOLEAN : module = GMMILInit(so)

InitAIRL ==
  \E so \in BOOLEAN : \E discount \in Discounts :
    \E w \in [1..(IF so THEN state_size ELSE state_size + action_size) -> RewardWeights] :
      \E b \in RewardBias : \E h \in [States -> ShapingValues] :
        module = AIRLInit(so, discount, [weight |-> w, bias |-> b], h)

InitRED ==
  \E so \in BOOLEAN : \E p \in EmbeddingParams : \E t \in EmbeddingParams :
    module = REDInit(so, p, t)

Init ==
  /\ InitActorCritic \/ InitGAIL \/ InitGMMIL \/ InitAIRL \/ InitRED
  /\ last = Constructed
  /\ pre = None

\* The caller is done with the returned value.
Forget ==
  /\ last.op # "idle"
  /\ last' = Idle
  /\ pre' = None
  /\ UNCHANGED module

CanCall(class) == module.class = class /\ last.op \in {"__init__", "idle"}

\* A call: the fields and the value or exception it leaves.
Call(op, args, out) ==
  /\ module' = out.module
  /\ last' = Observed(op, args, out)
  /\ pre' = module

\* What a method that assigns no field and raises nothing leaves.
Pure(m, result) == Outcome(m, result, Nothing)

ActorForward ==
  /\ CanCall("Actor")
  /\ \E b \in StateBatches :
       Call("forward", b, Pure(module, Actor_forward(module, b[1])))

CriticForward ==
  /\ CanCall("Critic")
  /\ \E b \in StateBatches :
       Call("forward", b, Pure(module, Critic_forward(module, b[1])))

ActorCriticForward ==
  /\ CanCall("ActorCritic")
  /\ \E b \in StateBatches :
       Call("forward", b, Pure(module, ActorCritic_forward(module, b[1])))

ActorCriticLogProb ==
  /\ CanCall("ActorCritic")
  /\ \E b \in StateActionBatches :
       Call("log_prob", b, Pure(module, ActorCritic_log_prob(module, b[1], b[2])))

GAILForward ==
  /\ CanCall("GAILDiscriminator")
  /\ \E b \in StateActionBatches :
       Call("forward", b, Pure(module, GAIL_forward(module, b[1], b[2])))

GAILPredictReward ==
  /\ CanCall("GAILDiscriminator")
  /\ \E b \in StateActionBatches :
       Call("predict_reward", b, Pure(module, GAIL_predict_reward(module, b[1], b[2])))

GMMILPredictReward ==
  /\ CanCall("GMMILDiscriminator")
  /\ \E b \in AgentBatches :
       \E x \in ExpertBatches :
         Call("predict_reward", b \o x,
              GMMIL_predict_reward(module, b[1], b[2], x[1], x[2]))

AIRLReward ==
  /\ CanCall("AIRLDiscriminator")
  /\ \E b \in StateActionBatches :
       Call("reward", b, Pure(module, AIRL_reward(module, b[1], b[2])))

AIRLValue ==
  /\ CanCall("AIRLDiscriminator")
  /\ \E b \in StateBatches :
       Call("value", b, Pure(module, AIRL_value(module, b[1])))

AIRLForward ==
  /\ CanCall("AIRLDiscriminator")
  /\ \E b \in TransitionBatches :
       Call("forward", b, Pure(module, AIRL_forward(module, b[1], b[2], b[3], b[4], b[5])))

AIRLPredictReward ==
  /\ CanCall("AIRLDiscriminator")
  /\ \E b \in TransitionBatches :
       Call("predict_reward", b, Pure(module, AIRL_predict_reward(module, b[1], b[2], b[3], b[4], b[5])))

REDForward ==
  /\ CanCall("REDDiscriminator")
  /\ \E b \in StateActionBatches :
       Call("forward", b, Pure(module, RED_forward(module, b[1], b[2])))

REDPredictReward ==
  /\ CanCall("REDDiscriminator")
  /\ \E b \in StateActionBatches :
       Call("predict_reward", b, Pure(module, RED_predict_reward(module, b[1], b[2])))

REDOptimizerStep ==
  /\ CanCall("REDDiscriminator")
  /\ \E p \in EmbeddingParams : \E t \in EmbeddingParams :
       Call("optimizer.step", <<p, t>>, Outcome(OptimizerStep(module, p, t), None, Nothing))

Next ==
  \/ ActorForward
  \/ CriticForward
  \/ ActorCriticForward
  \/ ActorCriticLogProb
  \/ GAILForward
  \/ GAILPredictReward
  \/ GMMILPredictReward
  \/ AIRLPredictReward
  \/ AIRLForward
  \/ AIRLReward
  \/ AIRLValue
  \/ REDForward
  \/ REDPredictReward
  \/ REDOptimizerStep
  \/ Forget

Spec == Init /\ [][Next]_vars

(***************************************************************************)
(* Properties                                                              *)
(***************************************************************************)
Class == module.class
IsCall == last.op \notin {"__init__", "idle", "optimizer.step"}
Called(class, op) == Class = class /\ last.op = op
ZeroActions(action) == [i \in 1..Len(action) |-> 0]

\* What the method `op` of the module m leaves when called with args.
OutcomeOf(m, op, args) ==
  CASE m.class = "Actor" -> Pure(m, Actor_forward(m, args[1]))
    [] m.class = "Critic" -> Pure(m, Critic_forward(m, args[1]))
    [] m.class = "ActorCritic" /\ op = "forward" ->
         Pure(m, ActorCritic_forward(m, args[1]))
    [] m.class = "ActorCritic" /\ op = "log_prob" ->
         Pure(m, ActorCritic_log_prob(m, args[1], args[2]))
    [] m.class = "GAILDiscriminator" /\ op = "forward" ->
         Pure(m, GAIL_forward(m, args[1], args[2]))
    [] m.class = "GAILDiscriminator" /\ op = "predict_reward" ->
         Pure(m, GAIL_predict_reward(m, args[1], args[2]))
    [] m.class = "GMMILDiscriminator" ->
         GMMIL_predict_reward(m, args[1], args[2], args[3], args[4])
    [] m.class = "AIRLDiscriminator" /\ op = "reward" ->
         Pure(m, AIRL_reward(m, args[1], args[2]))
    [] m.class = "AIRLDiscriminator" /\ op = "value" ->
         Pure(m, AIRL_value(m, args[1]))
    [] m.class = "AIRLDiscriminator" /\ op = "forward" ->
         Pure(m, AIRL_forward(m, args[1], args[2], args[3], args[4], args[5]))
    [] m.class = "AIRLDiscriminator" /\ op = "predict_reward" ->
         Pure(m, AIRL_predict_reward(m, args[1], args[2], args[3], args[4], args[5]))
    [] m.class = "REDDiscriminator" /\ op = "forward" ->
         Pure(m, RED_forward(m, args[1], args[2]))
    [] m.class = "REDDiscriminator" /\ op = "predict_reward" ->
         Pure(m, RED_predict_reward(m, args[1], args[2]))

\* The module with its learned parameters and every other field as the
\* constructor sets it.
AsConstructed(m) ==
  IF m.class = "GMMILDiscriminator" THEN GMMILInit(m.state_only) ELSE m

BandwidthsSet(m) == m.gamma_1 # None /\ m.gamma_2 # None

----------------------------------------------------------------------------
\* C1 as stated: every reward/forward operation of every module is a pure
\* function.  A call that returns has changed no field of the module, and
\* it returns what the same call returns on the module as constructed with
\* the same learned parameters, whatever calls came before.
C1_EveryOperationPure ==
  (IsCall /\ last.raised = Nothing) =>
    /\ module = pre
    /\ LET fresh == OutcomeOf(AsConstructed(pre), last.op, last.args)
       IN  fresh.raised = last.raised /\ fresh.result = last.result

\* C1 as amended: the operations of every module but GMMILDiscriminator are
\* pure.  GMMILDiscriminator.predict_reward assigns fields while gamma_1 is
\* None; once gamma_1 is set a call changes no field, and once both
\* bandwidths are set it raises nothing and returns the kernels of its
\* arguments under the two latched bandwidths.
C1_PureButGMMILLatch ==
  IsCall =>
    IF Class # "GMMILDiscriminator"
      THEN /\ module = pre
           /\ last.raised = Nothing
           /\ last.result = OutcomeOf(AsConstructed(pre), last.op, last.args).result
      ELSE /\ pre.gamma_1 # None => module = pre
           /\ BandwidthsSet(pre) =>
                /\ last.raised = Nothing
                /\ last.result =
                     GMMILKernels(pre, NetworkInput(pre, last.args[1], last.args[2]),
                                  NetworkInput(pre, last.args[3], last.args[4]))

\* A call of GMMIL's predict_reward on a module whose bandwidths an earlier
\* call set, with batches that would give other bandwidths.
C1_Witness ==
  /\ Called("GMMILDiscriminator", "predict_reward")
  /\ BandwidthsSet(pre)
  /\ OutcomeOf(AsConstructed(pre), last.op, last.args).raised = Nothing
  /\ OutcomeOf(AsConstructed(pre), last.op, last.args).result # last.result

----------------------------------------------------------------------------
\* C2 as stated: no operation has a failure state.  Every call of
\* GMMILDiscriminator.predict_reward with shape-compatible batches returns a
\* reward vector instead of raising.
C2_PredictRewardNeverRaises ==
  Called("GMMILDiscriminator", "predict_reward") => last.raised = Nothing

----------------------------------------------------------------------------
\* A float strictly between 0 and 1.
InOpenUnitInterval(x) == IsFin(x) /\ 0 < Num(x) /\ Num(x) < Den

\* C3 as stated: the discriminator output D lies strictly between 0 and 1,
\* for GAILDiscriminator.forward on every input and for
\* AIRLDiscriminator.forward on every input with finite f and policy > 0.
C3_OutputStrictlyBetween0And1 ==
  /\ Called("GAILDiscriminator", "forward") =>
       \A i \in 1..Len(last.result) : InOpenUnitInterval(last.result[i])
  /\ Called("AIRLDiscriminator", "forward") =>
       \A i \in 1..Len(last.result) :
         FLess(Zero, last.args[4][i]) => InOpenUnitInterval(last.result[i])

----------------------------------------------------------------------------
\* D of AIRL's forward from f and the policy probability.
AIRL_D(f, policy) == FDiv(Exp(f), FAdd(Exp(f), policy))

\* C4: in AIRLDiscriminator.forward, f = reward(state, action) +
\* discount * value(next_state) - value(state) where terminal = 0 and
\* f = reward(state, action) where terminal = 1; the result of a terminal
\* transition is that of f = reward, whatever next_state and whatever the
\* shaping function.
C4_TerminalMasksShaping ==
  Called("AIRLDiscriminator", "forward") =>
    LET state == last.args[1]
        action == last.args[2]
        next_state == last.args[3]
        policy == last.args[4]
        terminal == last.args[5]
        r == AIRL_reward(pre, state, action)
        f == AIRL_f(pre, state, action, next_state, terminal)
    IN  \A i \in 1..Len(state) :
          /\ terminal[i] = 0 =>
               f[i] = r[i] + Discounted(pre.discount, pre.h[next_state[i]]) - pre.h[state[i]]
          /\ terminal[i] = 1 =>
               /\ f[i] = r[i]
               /\ last.result[i] = AIRL_D(r[i], policy[i])
               /\ \A other \in Batch1(States) : \A h \in [States -> ShapingValues] :
                    AIRL_forward([pre EXCEPT !.h = h], state, action, other, policy, terminal)
                      = last.result

\* A terminal transition whose shaping term, unmasked, would not be 0.
C4_Witness ==
  /\ Called("AIRLDiscriminator", "forward")
  /\ last.args[5][1] = 1
  /\ Discounted(pre.discount, pre.h[last.args[3][1]]) - pre.h[last.args[1][1]] # 0
  /\ InOpenUnitInterval(last.result[1])

----------------------------------------------------------------------------
\* The squared distance of two rows, and the lower median of a sequence:
\* its element of rank (n - 1) div 2 when sorted.
SquaredDistance(x, y) == SumSeq([k \in 1..Len(x) |-> (x[k] - y[k]) * (x[k] - y[k])])

IsLowerMedian(v, xs) ==
  LET k == (Len(xs) - 1) \div 2
  IN  /\ \E i \in 1..Len(xs) : xs[i] = v
      /\ Cardinality({i \in 1..Len(xs) : xs[i] < v}) <= k
      /\ Cardinality({i \in 1..Len(xs) : xs[i] > v}) <= Len(xs) - 1 - k

\* gamma = 1 / the median of the squared distances from the rows X to the rows Y
IsMedianBandwidth(gamma, X, Y) ==
  /\ gamma # None
  /\ gamma[1] = 1
  /\ IsLowerMedian(gamma[2],
       Flatten([i \in 1..Len(X) |-> [j \in 1..Len(Y) |-> SquaredDistance(X[i], Y[j])]]))

\* C5: the bandwidths are latched by the first predict_reward call.  gamma_1
\* and gamma_2 are None after construction; a successful call on a module
\* without bandwidths sets gamma_1 to 1 / the median of the agent-to-expert
\* and gamma_2 to 1 / the median of the expert-to-expert squared distances
\* of its batches; a call on a module with gamma_1 set leaves both as they
\* are; and a successful call returns the kernels under the module's two
\* bandwidths.
C5_BandwidthsLatchedByFirstCall ==
  Class = "GMMILDiscriminator" =>
    /\ last.op = "__init__" => module.gamma_1 = None /\ module.gamma_2 = None
    /\ module.gamma_2 # None => module.gamma_1 # None
    /\ last.op = "predict_reward" =>
         LET X == NetworkInput(pre, last.args[1], last.args[2])
             Y == NetworkInput(pre, last.args[3], last.args[4])
         IN  /\ pre.gamma_1 # None =>
                  module.gamma_1 = pre.gamma_1 /\ module.gamma_2 = pre.gamma_2
             /\ last.raised = Nothing =>
                  /\ BandwidthsSet(module)
                  /\ pre.gamma_1 = None =>
                       /\ IsMedianBandwidth(module.gamma_1, X, Y)
                       /\ IsMedianBandwidth(module.gamma_2, Y, Y)
                  /\ \A i \in 1..Len(X) : \A j \in 1..Len(Y) :
                       /\ last.result[i][1][2][j] =
                            <<"exp_neg">> \o Rat(module.gamma_1[1] * SquaredDistance(X[i], Y[j]),
                                                 module.gamma_1[2])
                       /\ last.result[i][2][2][j] =
                            <<"exp_neg">> \o Rat(module.gamma_2[1] * SquaredDistance(X[i], Y[j]),
                                                 module.gamma_2[2])

\* A successful call after the bandwidths were set, with batches whose own
\* medians are not the latched ones.
C5_Witness ==
  /\ Called("GMMILDiscriminator", "predict_reward")
  /\ BandwidthsSet(pre)
  /\ last.raised = Nothing
  /\ LET X == NetworkInput(pre, last.args[1], last.args[2])
         Y == NetworkInput(pre, last.args[3], last.args[4])
     IN  /\ Median(_squared_distance(X, Y)) # 0
         /\ Median(_squared_distance(Y, Y)) # 0
         /\ ~IsMedianBandwidth(module.gamma_1, X, Y)
         /\ ~IsMedianBandwidth(module.gamma_2, Y, Y)

----------------------------------------------------------------------------
\* C6 as stated: in every reachable state of a GMMILDiscriminator, gamma_1
\* is None if and only if gamma_2 is None.
C6_BandwidthsSetTogether ==
  Class = "GMMILDiscriminator" => (module.gamma_1 = None <=> module.gamma_2 = None)

----------------------------------------------------------------------------
\* C7: a discriminator built with state_only = True returns the same for
\* any action arguments (every call leaves what the call with all actions
\* 0 leaves); with state_only = False the network input of a row is its
\* state followed by the one-hot encoding of its action, state_size +
\* action_size numbers.
C7_StateOnlyIgnoresActions ==
  (\/ Called("GAILDiscriminator", "forward")
   \/ Called("AIRLDiscriminator", "reward")
   \/ Called("REDDiscriminator", "forward")
   \/ Called("GMMILDiscriminator", "predict_reward")) =>
    IF pre.state_only
      THEN LET args == IF Class = "GMMILDiscriminator"
                         THEN <<last.args[1], ZeroActions(last.args[2]),
                                last.args[3], ZeroActions(last.args[4])>>
                         ELSE <<last.args[1], ZeroActions(last.args[2])>>
               other == OutcomeOf(pre, last.op, args)
           IN  /\ other.module = module
               /\ other.raised = last.raised
               /\ other.result = last.result
      ELSE LET input == NetworkInput(pre, last.args[1], last.args[2])
           IN  \A i \in 1..Len(input) :
                 /\ Len(input[i]) = state_size + action_size
                 /\ \A k \in 1..state_size : input[i][k] = last.args[1][i][k]
                 /\ \A k \in 1..action_size :
                      input[i][state_size + k] = (IF k = last.args[2][i] + 1 THEN 1 ELSE 0)

\* A successful call of a state_only GMMIL discriminator whose agent and
\* expert actions are not all 0.
C7_Witness ==
  /\ Called("GMMILDiscriminator", "predict_reward")
  /\ pre.state_only
  /\ last.raised = Nothing
  /\ last.args[2][1] = 1
  /\ \E j \in 1..Len(last.args[4]) : last.args[4][j] = 1

----------------------------------------------------------------------------
InputBatches(m) == Batch1(InputRows(m.state_only))

\* C8: in a REDDiscriminator the target's parameters never require
\* gradients and the predictor's always do, so no forward, predict_reward
\* or optimizer step changes the target embedding of any input.
C8_TargetFrozen ==
  Class = "REDDiscriminator" =>
    /\ ~module.requires_grad.target
    /\ module.requires_grad.predictor
    /\ last.op \notin {"__init__", "idle"} =>
         \A input \in InputBatches(module) :
           EmbeddingNetwork_forward(module.target, input)
             = EmbeddingNetwork_forward(pre.target, input)

\* An optimizer step, with new values at hand for both networks, that
\* changed the predictor's embedding of some input.
C8_Witness ==
  /\ Called("REDDiscriminator", "optimizer.step")
  /\ last.args[2] # pre.target
  /\ \E input \in InputBatches(module) :
       EmbeddingNetwork_forward(module.predictor, input)
         # EmbeddingNetwork_forward(pre.predictor, input)

----------------------------------------------------------------------------
\* C9 as stated: AIRLDiscriminator.predict_reward is the log-odds of
\* forward, so for policy > 0 the predicted reward equals f - log(policy):
\* a finite number, positive exactly when exp(f) > policy.
C9_RewardIsLogOdds ==
  Called("AIRLDiscriminator", "predict_reward") =>
    LET f == AIRL_f(pre, last.args[1], last.args[2], last.args[3], last.args[5])
    IN  \A i \in 1..Len(f) :
          FLess(Zero, last.args[4][i]) =>
            /\ LogIsFinite(last.result[i])
            /\ LogIsPositive(last.result[i]) <=> FLess(last.args[4][i], Exp(f[i]))

=============================================================================
